---- MODULE Spec2Model ----
(***************************************************************************)
(* Model of the Search API Connector tool (searchapi_tool.py).             *)
(*                                                                         *)
(* One invocation of SearchAPITool._execute is a straight line with two    *)
(* blocking calls to the outside: requests.post (inside                    *)
(* send_post_request) and llm.chat_completion (inside summarise_result).   *)
(* The model has one action per stretch of code between those calls.       *)
(*                                                                         *)
(* Python strings are sequences of atoms.  An atom is an unsplittable      *)
(* piece of text; the placeholders "{snippets}" and "{query}" are atoms,   *)
(* so str.replace is a replacement of sub-sequences.                       *)
(* Python values are records [t, v]: t is the type, v the payload.         *)
(***************************************************************************)
EXTENDS Integers, Sequences, FiniteSets, TLC

\* ------------------------------------------------------------- bounds
MaxTermLen == 1
MaxDocs == 2

\* ------------------------------------------------------- program constants
HTTP_OK == 200

\* ------------------------------------------------------------ values
PyNone == [t |-> "None", v |-> <<>>]
Absent == [t |-> "absent", v |-> <<>>]
Str(s) == [t |-> "str", v |-> s]

\* Python truthiness of None and of a str.
Truthy(x) == x.t = "str" /\ Len(x.v) > 0

\* dict.get(key): a missing key reads as None.
hit_get(hit, key) == IF hit[key].t = "absent" THEN PyNone ELSE hit[key]

\* ------------------------------------------------------------ inputs
TermAtoms == {"inflation", "{snippets}", "{query}"}
RECURSIVE SeqsUpTo(_, _)
SeqsUpTo(S, n) ==
  IF n = 0 THEN {<<>>}
  ELSE LET shorter == SeqsUpTo(S, n - 1)
       IN  shorter \cup {Append(s, a) : s \in shorter, a \in S}
Terms == SeqsUpTo(TermAtoms, MaxTermLen)

DocIds == {Absent, Str(<<"a1">>), Str(<<"a2">>)}
DocTexts == {Absent, Str(<<"Prices rose.">>), Str(<<"{query}">>)}
Docs == [document_id : DocIds, clean_text : DocTexts]
DocLists == SeqsUpTo(Docs, MaxDocs)

\* The JSON body of a response, by shape:
\*   null        null
\*   empty       {}
\*   noresults   {"status": "ok"}
\*   nodocuments {"results": {}}
\*   nulldocs    {"results": {"documents": null}}
\*   docs        {"results": {"documents": [...]}}
\*   invalid     not JSON
JsonNull == [kind |-> "null", documents |-> <<>>]
Body(k, ds) == [kind |-> k, documents |-> ds]
OkBodies ==
  {Body(k, <<>>) : k \in {"null", "empty", "noresults", "nodocuments", "nulldocs", "invalid"}}
    \cup {Body("docs", ds) : ds \in DocLists}
OneDoc == <<[document_id |-> Str(<<"a1">>), clean_text |-> Str(<<"Prices rose.">>)]>>
FailBodies == {JsonNull, Body("docs", OneDoc)}
FailStatuses == {404, 500}

\* What requests.post comes back with: a response, or an exception.
Response(st, b) == [kind |-> "response", status |-> st, body |-> b]
NoOutcome == [kind |-> "none", status |-> 0, body |-> JsonNull]
ConnectionError == [kind |-> "ConnectionError", status |-> 0, body |-> JsonNull]
Outcomes ==
  {Response(HTTP_OK, b) : b \in OkBodies}
    \cup {Response(st, b) : st \in FailStatuses, b \in FailBodies}
    \cup {ConnectionError}

\* What llm.chat_completion comes back with: a dict with optional keys.
LlmResults ==
  [error : {Absent, Str(<<"ERROR_OPENAI">>)},
   message : {Absent, PyNone, Str(<<"rate limit">>)},
   content : {Absent, Str(<<>>), Str(<<"Summary.">>)}]
NoLlmResult == [error |-> Absent, message |-> Absent, content |-> Absent]

\* ----------------------------------------------------- send_post_request
\* A faulty variant: the status of the response is not looked at.
send_post_request_any_status(o) ==
  IF o.kind = "ConnectionError"
  THEN [exc |-> "ConnectionError", ret |-> JsonNull, printed |-> <<>>]
  ELSE IF o.body.kind = "invalid"
  THEN [exc |-> "JSONDecodeError", ret |-> JsonNull, printed |-> <<>>]
  ELSE [exc |-> "", ret |-> o.body, printed |-> <<>>]

send_post_request(o) ==
  IF o.kind = "ConnectionError"
  THEN [exc |-> "ConnectionError", ret |-> JsonNull, printed |-> <<>>]
  ELSE IF o.status = HTTP_OK
  THEN IF o.body.kind = "invalid"
       THEN [exc |-> "JSONDecodeError", ret |-> JsonNull, printed |-> <<>>]
       ELSE [exc |-> "", ret |-> o.body, printed |-> <<>>]
  ELSE [exc |-> "", ret |-> JsonNull, printed |-> <<o.status>>]

\* ---------------------------------------------------------------- search
\* A faulty variant: the condition is only `search_results`, the documents are not
\* looked at before the loop.
search_condition_no_docs_check(sr) ==
  IF sr.kind \in {"null", "empty"} THEN "else"
  ELSE IF sr.kind \in {"noresults", "nodocuments"} THEN "KeyError"
  ELSE "then"

\* A faulty variant: the keys are read with .get, a missing one is an empty result.
search_condition_lenient(sr) ==
  IF sr.kind \in {"null", "empty", "noresults", "nodocuments", "nulldocs"} THEN "else"
  ELSE IF Len(sr.documents) = 0 THEN "else"
  ELSE "then"

\* The condition of line 87: which way the if goes, or the KeyError of a
\* subscript on a missing key.
search_condition(sr) ==
  IF sr.kind \in {"null", "empty"} THEN "else"
  ELSE IF sr.kind \in {"noresults", "nodocuments"} THEN "KeyError"
  ELSE IF sr.kind = "nulldocs" \/ Len(sr.documents) = 0 THEN "else"
  ELSE "then"

\* A faulty variant: the loop inserts at the front of the list.
RECURSIVE collect_prepend(_, _, _)
collect_prepend(hits, key, acc) ==
  IF hits = <<>> THEN acc
  ELSE collect_prepend(Tail(hits), key, <<hit_get(Head(hits), key)>> \o acc)

\* The for loop of lines 90-92, for one of its two lists.
RECURSIVE collect(_, _, _)
collect(hits, key, acc) ==
  IF hits = <<>> THEN acc
  ELSE collect(Tail(hits), key, Append(acc, hit_get(Head(hits), key)))

\* str.join
RECURSIVE join(_, _)
join(sep, parts) ==
  IF parts = <<>> THEN <<>>
  ELSE IF Len(parts) = 1 THEN parts[1]
  ELSE parts[1] \o sep \o join(sep, Tail(parts))

\* "- " + article_id raises TypeError when article_id is None.
join_raises(ids) == \E i \in 1..Len(ids) : ids[i].t # "str"

\* A faulty variant: no blank line between the summary and the heading.
format_answer_no_blank_line(summary, ids) ==
  Str(summary.v \o <<"\nArticle IDs:\n">>
        \o join(<<"\n">>, [i \in 1..Len(ids) |-> <<"- ">> \o ids[i].v]))

\* The return expression of line 96.
format_answer(summary, ids) ==
  Str(summary.v \o <<"\n\nArticle IDs:\n">>
        \o join(<<"\n">>, [i \in 1..Len(ids) |-> <<"- ">> \o ids[i].v]))

\* ------------------------------------------------------- summarise_result
\* str.replace: every non-overlapping occurrence, left to right.
RECURSIVE replace(_, _, _)
replace(s, old, new) ==
  IF Len(s) < Len(old) THEN s
  ELSE IF SubSeq(s, 1, Len(old)) = old
  THEN new \o replace(SubSeq(s, Len(old) + 1, Len(s)), old, new)
  ELSE <<Head(s)>> \o replace(Tail(s), old, new)

\* repr of a list item, and str of a list.
repr(x) == IF x.t = "None" THEN <<"None">> ELSE <<"'">> \o x.v \o <<"'">>
str_list(xs) ==
  <<"[">> \o join(<<", ">>, [i \in 1..Len(xs) |-> repr(xs[i])]) \o <<"]">>

\* The backquote, which a TLA+ string cannot hold, is the atom BQ.
BQ == "BQ"
template ==
  <<"Summarize the following text ", BQ, "{snippets}", BQ,
    "\n            Write a concise or as descriptive as necessary and attempt to\n            answer the query: ",
    BQ, "{query}", BQ,
    " as best as possible. Use markdown formatting for\n            longer responses.">>

summarize_prompt(query, snippets) ==
  replace(replace(template, <<"{snippets}">>, str_list(snippets)), <<"{query}">>, query)

\* A faulty variant: the message is not compared with None.
error_check_any_message(result) ==
  IF result.error.t = "absent" THEN "skip"
  ELSE IF result.message.t = "absent" THEN "KeyError"
  ELSE "handle"

\* The condition of line 122: "handle", "skip", or the KeyError of
\* result['message'] on a dict with an error key and no message key.
error_check(result) ==
  IF result.error.t = "absent" THEN "skip"
  ELSE IF result.message.t = "absent" THEN "KeyError"
  ELSE IF result.message.t # "None" THEN "handle"
  ELSE "skip"

\* -------------------------------------------------------------- _execute
no_articles(term) == Str(<<"No articles on ">> \o term \o <<".">>)
execute_return(results, term) == IF Truthy(results) THEN results ELSE no_articles(term)

\* ---------------------------------------------------------------- state
VARIABLES
  pc,             \* "idle", "post", "llm", "done", "raised"
  search_term,    \* the argument of _execute
  outcome,        \* what requests.post came back with
  printed,        \* what send_post_request printed
  search_results, \* search: the value of send_post_request
  article_ids,    \* search: the list built by the loop
  snippets,       \* search: the list `results` built by the loop
  messages,       \* the messages handed to chat_completion
  llm_result,     \* what chat_completion came back with
  summary,        \* the value of summarise_result
  search_ret,     \* the value of search
  ret,            \* the value of _execute
  exc,            \* the exception that left _execute, "" when none
  posts,          \* calls of requests.post in this invocation
  llm_calls,      \* calls of chat_completion in this invocation
  handled         \* the messages handed to ErrorHandler, in order

vars ==
  <<pc, search_term, outcome, printed, search_results, article_ids, snippets,
    messages, llm_result, summary, search_ret, ret, exc, posts, llm_calls, handled>>

Init ==
  /\ pc = "idle"
  /\ search_term = <<>>
  /\ outcome = NoOutcome
  /\ printed = <<>>
  /\ search_results = JsonNull
  /\ article_ids = <<>>
  /\ snippets = <<>>
  /\ messages = <<>>
  /\ llm_result = NoLlmResult
  /\ summary = Absent
  /\ search_ret = Absent
  /\ ret = Absent
  /\ exc = ""
  /\ posts = 0
  /\ llm_calls = 0
  /\ handled = <<>>

\* _execute is entered, search is entered, send_post_request is entered and
\* is about to call requests.post.  Nothing is kept from an earlier call.
Execute(term) ==
  /\ pc \in {"idle", "done", "raised"}
  /\ pc' = "post"
  /\ search_term' = term
  /\ outcome' = NoOutcome
  /\ printed' = <<>>
  /\ search_results' = JsonNull
  /\ article_ids' = <<>>
  /\ snippets' = <<>>
  /\ messages' = <<>>
  /\ llm_result' = NoLlmResult
  /\ summary' = Absent
  /\ search_ret' = Absent
  /\ ret' = Absent
  /\ exc' = ""
  /\ posts' = 0
  /\ llm_calls' = 0
  /\ handled' = <<>>

\* requests.post comes back with o: the rest of send_post_request, then
\* search up to the call of chat_completion, or up to its return.
PostReply(o) ==
  LET r == send_post_request(o)
      c == search_condition(r.ret)
      raised == IF r.exc # "" THEN r.exc ELSE IF c = "KeyError" THEN "KeyError" ELSE ""
      ids == collect(r.ret.documents, "document_id", <<>>)
      texts == collect(r.ret.documents, "clean_text", <<>>)
  IN
  /\ pc = "post"
  /\ outcome' = o
  /\ posts' = posts + 1
  /\ printed' = r.printed
  /\ search_results' = r.ret
  /\ exc' = raised
  /\ pc' = IF raised # "" THEN "raised" ELSE IF c = "then" THEN "llm" ELSE "done"
  /\ article_ids' = IF raised = "" /\ c = "then" THEN ids ELSE <<>>
  /\ snippets' = IF raised = "" /\ c = "then" THEN texts ELSE <<>>
  /\ messages' =
       IF raised = "" /\ c = "then"
       THEN <<[role |-> "system", content |-> summarize_prompt(search_term, texts)]>>
       ELSE <<>>
  /\ llm_calls' = IF raised = "" /\ c = "then" THEN llm_calls + 1 ELSE llm_calls
  /\ search_ret' = IF raised = "" /\ c = "else" THEN PyNone ELSE Absent
  /\ ret' = IF raised = "" /\ c = "else" THEN execute_return(PyNone, search_term) ELSE Absent
  /\ UNCHANGED <<search_term, llm_result, summary, handled>>

\* chat_completion comes back with result: the rest of summarise_result,
\* the return expression of search, the rest of _execute.
LlmReply(result) ==
  LET e == error_check(result)
      content_raises == e # "KeyError" /\ result.content.t = "absent"
      summarised == e # "KeyError" /\ ~content_raises
      joined == summarised /\ ~join_raises(article_ids)
      answer == format_answer(result.content, article_ids)
  IN
  /\ pc = "llm"
  /\ llm_result' = result
  /\ handled' = IF e = "handle" THEN Append(handled, result.message) ELSE handled
  /\ summary' = IF summarised THEN result.content ELSE Absent
  /\ search_ret' = IF joined THEN answer ELSE Absent
  /\ ret' = IF joined THEN execute_return(answer, search_term) ELSE Absent
  /\ exc' = IF ~summarised THEN "KeyError" ELSE IF ~joined THEN "TypeError" ELSE ""
  /\ pc' = IF joined THEN "done" ELSE "raised"
  /\ UNCHANGED <<search_term, outcome, printed, search_results, article_ids, snippets,
                 messages, posts, llm_calls>>

Next ==
  \/ \E term \in Terms : Execute(term)
  \/ \E o \in Outcomes : PostReply(o)
  \/ \E result \in LlmResults : LlmReply(result)

Spec == Init /\ [][Next]_vars

\* ------------------------------------------------- words for the claims
Ended == pc \in {"done", "raised"}
Is200 == outcome.kind = "response" /\ outcome.status = HTTP_OK
Non200 == outcome.kind = "response" /\ outcome.status # HTTP_OK
HasDocs == Is200 /\ outcome.body.kind = "docs" /\ Len(outcome.body.documents) >= 1
EmptyDocs == Is200 /\ outcome.body.kind = "docs" /\ outcome.body.documents = <<>>
DocsAbsent == Is200 /\ outcome.body.kind \in {"noresults", "nodocuments"}
SentDocs == outcome.body.documents
NoArticlesText == <<"No articles on ">> \o search_term \o <<".">>

\* The value a dict lookup with a default of None gives, said without hit_get.
FieldOrNone(d, key) == IF d[key] = Absent THEN PyNone ELSE d[key]

\* The lines "- <id>" of the documents ds, built from the last one back.
RECURSIVE IdLines(_)
IdLines(ds) ==
  IF Len(ds) = 1 THEN <<"- ">> \o ds[1].document_id.v
  ELSE IdLines(SubSeq(ds, 1, Len(ds) - 1)) \o <<"\n", "- ">> \o ds[Len(ds)].document_id.v

Contains(s, sub) ==
  \E i \in 0..(Len(s) - Len(sub)) : SubSeq(s, i + 1, i + Len(sub)) = sub

\* -------------------------------------------------------------- claims

\* C1: when the search API answers with a non-200 status, or answers 200
\* with an empty documents array, _execute returns exactly
\* "No articles on <search_term>." and raises nothing.
C1_NoArticlesExact ==
  (Ended /\ (Non200 \/ EmptyDocs)) =>
    /\ pc = "done"
    /\ exc = ""
    /\ ret = Str(NoArticlesText)
    /\ (search_term = <<"inflation">> => ret.v = <<"No articles on ", "inflation", ".">>)

C1_Witness ==
  /\ pc = "done"
  /\ outcome.kind = "response"
  /\ outcome.status = 500
  /\ outcome.body.kind = "docs"
  /\ search_term = <<"inflation">>
  /\ ret = Str(<<"No articles on ", "inflation", ".">>)

\* C2: every invocation of _execute ends by returning a string, for every
\* search-API outcome (200 with documents, 200 with no documents, non-200)
\* and every language-model outcome (a content response, an error response).
C2_AlwaysAString ==
  LET wellFormed(d) == d.document_id # Absent /\ d.clean_text # Absent
      searchCase ==
        \/ Non200
        \/ /\ Is200
           /\ outcome.body.kind = "docs"
           /\ \A i \in 1..Len(SentDocs) : wellFormed(SentDocs[i])
      contentResponse ==
        llm_result.error = Absent /\ llm_result.message = Absent /\ llm_result.content.t = "str"
      errorResponse ==
        llm_result.error # Absent /\ llm_result.message.t = "str" /\ llm_result.content = Absent
  IN (Ended /\ searchCase /\ (llm_calls = 1 => (contentResponse \/ errorResponse))) =>
       (pc = "done" /\ exc = "" /\ ret.t = "str")

\* C3: with N >= 1 documents, each with its document_id, and a summary s
\* from summarise_result, search and _execute return s, a blank line,
\* "Article IDs:", then one line "- <document_id>" per document, in the
\* order of the response, duplicates kept.
C3_AnswerFormat ==
  (Ended /\ HasDocs /\ summary.t = "str"
     /\ \A i \in 1..Len(SentDocs) : SentDocs[i].document_id # Absent) =>
    /\ pc = "done"
    /\ summary = llm_result.content
    /\ search_ret = Str(summary.v \o <<"\n\nArticle IDs:\n">> \o IdLines(SentDocs))
    /\ ret = search_ret

C3_Witness ==
  /\ pc = "done"
  /\ search_term = <<"inflation">>
  /\ Len(SentDocs) = 2
  /\ SentDocs[1].document_id = Str(<<"a1">>)
  /\ SentDocs[2].document_id = Str(<<"a2">>)
  /\ ret = Str(<<"Summary.", "\n\nArticle IDs:\n", "- ", "a1", "\n", "- ", "a2">>)

C3_WitnessDuplicates ==
  /\ pc = "done"
  /\ Len(SentDocs) = 2
  /\ ret = Str(<<"Summary.", "\n\nArticle IDs:\n", "- ", "a1", "\n", "- ", "a1">>)

\* C4: the prompt sent to the language model contains the search term
\* verbatim and the string form of the snippet list verbatim, also when a
\* text holds a placeholder token, and is the same whichever placeholder is
\* replaced first.
C4_PromptVerbatim ==
  (pc = "llm") =>
    LET prompt == messages[1].content
    IN /\ Contains(prompt, search_term)
       /\ Contains(prompt, str_list(snippets))
       /\ prompt = replace(replace(template, <<"{query}">>, search_term),
                           <<"{snippets}">>, str_list(snippets))

\* C5: on a 200 answer with N documents the two lists built by search hold
\* exactly N entries each, the i-th of each from the i-th document of the
\* response, nothing dropped, added or deduplicated.
C5_PairsInOrder ==
  (HasDocs /\ pc \in {"llm", "done", "raised"}) =>
    /\ Len(article_ids) = Len(SentDocs)
    /\ Len(snippets) = Len(SentDocs)
    /\ \A i \in 1..Len(SentDocs) :
         /\ article_ids[i] = FieldOrNone(SentDocs[i], "document_id")
         /\ snippets[i] = FieldOrNone(SentDocs[i], "clean_text")

C5_Witness ==
  /\ pc = "llm"
  /\ Len(SentDocs) = 2
  /\ article_ids = <<Str(<<"a1">>), Str(<<"a1">>)>>
  /\ snippets = <<Str(<<"{query}">>), Str(<<"Prices rose.">>)>>

\* C6: a document of a 200 response without document_id or clean_text gives
\* a None in its place and the invocation does not fail: _execute returns.
C6_MissingFieldNoFailure ==
  (Ended /\ HasDocs
     /\ (\E i \in 1..Len(SentDocs) :
           SentDocs[i].document_id = Absent \/ SentDocs[i].clean_text = Absent)
     /\ llm_result.error = Absent /\ llm_result.content.t = "str") =>
    /\ \A i \in 1..Len(SentDocs) :
         /\ article_ids[i] = FieldOrNone(SentDocs[i], "document_id")
         /\ snippets[i] = FieldOrNone(SentDocs[i], "clean_text")
    /\ pc = "done"
    /\ ret.t = "str"

\* C7: a transport failure of the search call, a non-200 status or a network
\* failure of the POST itself, never reaches the caller as an exception:
\* send_post_request yields None and the caller gets the no-results outcome.
C7_TransportFailureNotRaised ==
  (Ended /\ (Non200 \/ outcome.kind = "ConnectionError")) =>
    /\ pc = "done"
    /\ exc = ""
    /\ search_results = JsonNull
    /\ ret = Str(NoArticlesText)

C8_WitnessAbsent ==
  /\ pc = "raised"
  /\ DocsAbsent
  /\ exc = "KeyError"

\* C9: summarise_result hands the model's message to the error handler
\* exactly once if and only if the response has the error flag and a
\* non-null message; the model is not called again and nothing stands in
\* for the summary; without the error flag the handler is not called and
\* the model's content is returned unchanged.
C9_ErrorHandlerIff ==
  LET flagged == llm_result.error # Absent /\ llm_result.message.t = "str"
  IN /\ Len(handled) <= 1
     /\ llm_calls <= 1
     /\ (Ended /\ llm_calls = 1) =>
          /\ flagged => handled = <<llm_result.message>>
          /\ ~flagged => handled = <<>>
          /\ summary \in {Absent, llm_result.content}
          /\ (llm_result.error = Absent /\ llm_result.content # Absent) =>
               (handled = <<>> /\ summary = llm_result.content)
     /\ llm_calls = 0 => handled = <<>>

C9_Witness ==
  /\ Ended
  /\ llm_calls = 1
  /\ llm_result.error # Absent
  /\ llm_result.message = Str(<<"rate limit">>)
  /\ handled = <<Str(<<"rate limit">>)>>

\* C10: an invocation of _execute issues exactly one HTTP POST and calls
\* the language model at most once, only after a 200 answer with a
\* non-empty documents array; when the outcome is the no-articles message
\* neither the language model nor the error handler was called.
C10_StraightLine ==
  /\ posts <= 1
  /\ llm_calls <= 1
  /\ pc \in {"llm", "done", "raised"} => posts = 1
  /\ pc \in {"idle", "post"} => (posts = 0 /\ llm_calls = 0)
  /\ llm_calls = 1 => HasDocs
  /\ (pc = "done" /\ (search_ret = PyNone \/ ret = Str(NoArticlesText))) =>
       (llm_calls = 0 /\ handled = <<>> /\ messages = <<>>)

C10_Witness ==
  /\ pc = "done"
  /\ EmptyDocs
  /\ posts = 1
  /\ llm_calls = 0
  /\ ret = Str(NoArticlesText)

====
